---- MODULE Spec2Model ----
(***************************************************************************)
(* Data-retention pruning of partitioned PostgreSQL tables.                *)
(*                                                                         *)
(* Two programs of the repository are modelled:                            *)
(*   - the prune server, src/apps/prune_server/main.py with its domain     *)
(*     model src/apps/prune_server/models.py (specifications Spec and      *)
(*     SpecCore);                                                          *)
(*   - the command-line script src/prune_postgres.py with its domain       *)
(*     model src/models.py (specification SpecCli).                        *)
(* Strings are sequences of one-character strings, so that the regular     *)
(* expression, str.split and strptime are computed as the code computes    *)
(* them.                                                                   *)
(***************************************************************************)
EXTENDS Integers, Sequences, FiniteSets, TLC

VARIABLES
    prog,             \* which program runs: "server", "cli", "validate", "codec"
    pc,               \* position of the running handler / script
    tables,           \* prune_request.tables (server) / tables (cli)
    i,                \* index of the table_config being processed
    db_conn,          \* "none" | "open" | "closed"
    results,          \* results: List[PruneResponseDetail]
    response,         \* what the handler / script ends with
    table_exists,     \* local of PostgresTableModel.validate
    child_partitions, \* rows fetched by the catalog query, not yet iterated
    db,               \* the database as the connection sees it: a set of relations
    durable,          \* the database as last committed
    txn,              \* the connection's transaction: "ok" | "aborted" | "broken"
    now,              \* the wall clock, UTC: [day |-> ordinal, sec |-> 0..86399]
    tz,               \* the host's local offset from UTC, in seconds
    faults,           \* statement failures injected so far
    issued,           \* history: the statements sent to the database, by table
    passes,           \* history: one record per finished table pass
    cur,              \* history: the record of the pass under way
    fin,              \* input of the pure-function specifications
    fout              \* output of the pure-function specifications

vars == <<prog, pc, tables, i, db_conn, results, response, table_exists,
          child_partitions, db, durable, txn, now, tz, faults, issued, passes, cur,
          fin, fout>>

\* what no run of the server or of the script changes
fixed == <<prog, tables, tz, fin, fout>>

None == "None"

\* An optional object is a sequence of at most one element; an optional list
\* tells None from the empty list.
NoObject == <<>>
Some(x) == <<x>>
Value(o) == o[1]
NoList == [none |-> TRUE, items |-> <<>>]
List(items) == [none |-> FALSE, items |-> items]

(***************************************************************************)
(* Characters and strings                                                  *)
(***************************************************************************)
Digits == <<"0", "1", "2", "3", "4", "5", "6", "7", "8", "9">>

IsDigit(c) == \E d \in 1..10 : Digits[d] = c

DigitVal(c) == (CHOOSE d \in 1..10 : Digits[d] = c) - 1

\* int(s) of a two-character digit string starting at pos
Int2(s, pos) == 10 * DigitVal(s[pos]) + DigitVal(s[pos + 1])

\* sep occurs in s at position pos
MatchesAt(s, sep, pos) ==
    /\ pos + Len(sep) - 1 <= Len(s)
    /\ \A k \in 1..Len(sep) : s[pos + k - 1] = sep[k]

RECURSIVE SplitFrom(_, _, _, _)
SplitFrom(s, sep, pos, acc) ==
    IF pos > Len(s) THEN <<acc>>
    ELSE IF MatchesAt(s, sep, pos)
         THEN <<acc>> \o SplitFrom(s, sep, pos + Len(sep), <<>>)
         ELSE SplitFrom(s, sep, pos + 1, Append(acc, s[pos]))

\* str.split(sep) with a non-empty separator
Split(s, sep) == SplitFrom(s, sep, 1, <<>>)

\* f"{n:0{w}d}"
RECURSIVE Dig(_, _)
Dig(n, w) == IF w = 0 THEN <<>> ELSE Append(Dig(n \div 10, w - 1), Digits[(n % 10) + 1])

(***************************************************************************)
(* datetime                                                                *)
(***************************************************************************)
IsLeap(y) == (y % 4 = 0) /\ ((y % 100 # 0) \/ (y % 400 = 0))

DaysInMonth(y, m) ==
    IF m = 2 THEN (IF IsLeap(y) THEN 29 ELSE 28)
    ELSE IF m \in {4, 6, 9, 11} THEN 30 ELSE 31

RECURSIVE DaysBeforeMonth(_, _)
DaysBeforeMonth(y, m) ==
    IF m = 1 THEN 0 ELSE DaysBeforeMonth(y, m - 1) + DaysInMonth(y, m - 1)

DaysBeforeYear(y) ==
    (y - 1) * 365 + ((y - 1) \div 4) - ((y - 1) \div 100) + ((y - 1) \div 400)

\* An instant is [day |-> proleptic Gregorian ordinal, sec |-> second of the day].
\* datetime(Y, M, D, h, m, s, tzinfo=utc) as an instant
Instant(dt) ==
    [day |-> DaysBeforeYear(dt.Y) + DaysBeforeMonth(dt.Y, dt.M) + dt.D,
     sec |-> dt.h * 3600 + dt.m * 60 + dt.s]

\* a - timedelta(seconds = n), n of either sign
MinusSeconds(a, n) ==
    [day |-> a.day + ((a.sec - n) \div 86400), sec |-> (a.sec - n) % 86400]

\* a < b for two aware datetimes
Before(a, b) == (a.day < b.day) \/ (a.day = b.day /\ a.sec < b.sec)

(***************************************************************************)
(* datetime.strptime(s, "%Y%m%d%H%M%S")                                    *)
(* The format compiles to a regular expression: four digits for %Y, then   *)
(* for each of %m %d %H %M %S an alternation that tries its two-digit      *)
(* forms before its one-digit form, with backtracking.  The first match    *)
(* must consume the whole string, and datetime() must accept the fields.   *)
(***************************************************************************)
Fail == [ok |-> FALSE, vals |-> <<>>, end |-> 0]

\* the two-digit forms of field f (1 = %m, 2 = %d, 3 = %H, 4 = %M, 5 = %S)
Ok2(f, v) ==
    CASE f = 1 -> v \in 1..12
      [] f = 2 -> v \in 1..31
      [] f = 3 -> v \in 0..23
      [] f = 4 -> v \in 0..59
      [] f = 5 -> v \in 0..61

\* the one-digit form of field f
Ok1(f, v) == IF f \in {1, 2} THEN v \in 1..9 ELSE v \in 0..9

RECURSIVE ParseFields(_, _, _)
ParseFields(s, pos, f) ==
    IF f > 5 THEN [ok |-> TRUE, vals |-> <<>>, end |-> pos]
    ELSE
      LET two == IF /\ pos + 1 <= Len(s)
                    /\ IsDigit(s[pos]) /\ IsDigit(s[pos + 1])
                    /\ Ok2(f, Int2(s, pos))
                 THEN ParseFields(s, pos + 2, f + 1) ELSE Fail
          one == IF /\ pos <= Len(s)
                    /\ IsDigit(s[pos])
                    /\ Ok1(f, DigitVal(s[pos]))
                 THEN ParseFields(s, pos + 1, f + 1) ELSE Fail
      IN IF two.ok
         THEN [ok |-> TRUE, vals |-> <<Int2(s, pos)>> \o two.vals, end |-> two.end]
         ELSE IF one.ok
              THEN [ok |-> TRUE, vals |-> <<DigitVal(s[pos])>> \o one.vals, end |-> one.end]
              ELSE Fail

ValueError == [ok |-> FALSE]

strptime(s) ==
    IF ~(Len(s) >= 4 /\ \A k \in 1..4 : IsDigit(s[k])) THEN ValueError
    ELSE
      LET y == 100 * Int2(s, 1) + Int2(s, 3)
          r == ParseFields(s, 5, 1)
      IN IF ~r.ok THEN ValueError
         ELSE IF r.end # Len(s) + 1 THEN ValueError      \* unconverted data remains
         ELSE IF y < 1 THEN ValueError                   \* year out of range
         ELSE IF r.vals[2] > DaysInMonth(y, r.vals[1]) THEN ValueError
         ELSE IF r.vals[5] > 59 THEN ValueError          \* second must be in 0..59
         ELSE [ok |-> TRUE,
               dt |-> [Y |-> y, M |-> r.vals[1], D |-> r.vals[2],
                       h |-> r.vals[3], m |-> r.vals[4], s |-> r.vals[5]]]

(***************************************************************************)
(* The partition naming convention {table}_pYYYYMMDD_HHMMSS                *)
(***************************************************************************)
\* the name the convention gives the partition of table_name at datetime dt
Encode(table_name, dt) ==
    table_name \o <<"_", "p">> \o Dig(dt.Y, 4) \o Dig(dt.M, 2) \o Dig(dt.D, 2)
        \o <<"_">> \o Dig(dt.h, 2) \o Dig(dt.m, 2) \o Dig(dt.s, 2)

\* re.match(f"^{table_name}_p\d{8}_\d{6}$", partition_name).  Table names are
\* letters, digits and underscores, which the pattern takes literally; "$" also
\* matches before one trailing newline.
RegexMatch(table_name, partition_name) ==
    LET n == Len(table_name)
        body == IF Len(partition_name) > 0 /\ partition_name[Len(partition_name)] = "\n"
                THEN SubSeq(partition_name, 1, Len(partition_name) - 1)
                ELSE partition_name
    IN /\ Len(body) = n + 17
       /\ SubSeq(body, 1, n) = table_name
       /\ body[n + 1] = "_" /\ body[n + 2] = "p"
       /\ \A k \in (n + 3)..(n + 10) : IsDigit(body[k])
       /\ body[n + 11] = "_"
       /\ \A k \in (n + 12)..(n + 17) : IsDigit(body[k])

\* the server's decoding of a partition name that matched the pattern:
\* IndexError and ValueError both end in "skip"
DecodeServer(partition_name) ==
    LET by_p == Split(partition_name, <<"_", "p">>)
        by_u == Split(partition_name, <<"_">>)
    IN IF Len(by_p) < 2 THEN ValueError                        \* IndexError
       ELSE LET date_str_part == Split(by_p[2], <<"_">>)[1]
                time_str_part == by_u[Len(by_u)]
            IN strptime(date_str_part \o time_str_part)

\* the script's decoding.  After the pattern matched, the last two pieces of
\* split("_") are "pYYYYMMDD" and "HHMMSS", and strptime with "%Y%m%d %H%M%S"
\* on "YYYYMMDD HHMMSS" accepts exactly what "%Y%m%d%H%M%S" accepts on the
\* fourteen digits: every field has two digits at its disposal.
DecodeCli(partition_name) ==
    LET by_u == Split(partition_name, <<"_">>)
    IN IF Len(by_u) < 2 THEN ValueError                        \* IndexError
       ELSE LET partition_date_str == by_u[Len(by_u) - 1]
                partition_date == SubSeq(partition_date_str, 2,
                                         IF Len(partition_date_str) < 9
                                         THEN Len(partition_date_str) ELSE 9)
                partition_time_str == by_u[Len(by_u)]
            IN strptime(partition_date \o partition_time_str)

(***************************************************************************)
(* Bounds and input sets                                                   *)
(***************************************************************************)
MaxBatch == 2         \* longest prune_request.tables explored
MaxTicks == 1         \* seconds the clock may advance during a run
MaxFaults == 1        \* database statements that may fail during a run

Public == "public"
Arch == "arch"

\* "test_table1": the table of the script and of the server's example
TT == <<"t", "e", "s", "t", "_", "t", "a", "b", "l", "e", "1">>
\* a table that is in no database explored
Gone == <<"g", "o", "n", "e">>

RetentionSeconds == 15

\* the clock when a run starts: 2023-01-01 00:00:10 UTC
Now0 == Instant([Y |-> 2023, M |-> 1, D |-> 1, h |-> 0, m |-> 0, s |-> 10])

\* children of test_table1: at the cutoff of Now0, one second older, after it,
\* outside the convention, and with digits that are no calendar date
PTie == Encode(TT, [Y |-> 2022, M |-> 12, D |-> 31, h |-> 23, m |-> 59, s |-> 55])
POld == Encode(TT, [Y |-> 2022, M |-> 12, D |-> 31, h |-> 23, m |-> 59, s |-> 54])
PNew == Encode(TT, [Y |-> 2023, M |-> 1, D |-> 1, h |-> 0, m |-> 0, s |-> 0])
PArchive == TT \o <<"_", "p", "A", "R", "C", "H", "I", "V", "E">>
PMonth13 == Encode(TT, [Y |-> 2022, M |-> 13, D |-> 1, h |-> 0, m |-> 0, s |-> 0])

\* a relation of the database; pname = <<>> when it has no parent
Rel(schema, name, pschema, pname) ==
    [schema |-> schema, name |-> name, pschema |-> pschema, pname |-> pname]

Parent == Rel(Public, TT, None, <<>>)
Child(name) == Rel(Public, name, Public, TT)

\* the databases a run of the server may find
ServerDBs ==
    { {Parent} \cup {Child(n) : n \in S} :
        S \in { {PTie, PNew, PMonth13}, {PTie, POld, PArchive}, {} } }

TimeRetention == [dt_target_column |-> "mtime", retention_seconds |-> RetentionSeconds]
Condition == [column |-> "status", operator |-> "=", value |-> "old"]

\* what a request may carry as one table's retention policy
ApiTimeRetentions == {NoObject, Some(TimeRetention)}
ApiConditions == {NoList, List(<<Condition>>)}

ApiTableConfigs ==
    [table_name : {TT, Gone}, schema_name : {Public},
     timeretention : ApiTimeRetentions, conditions : ApiConditions]

RECURSIVE SeqsUpTo(_, _)
SeqsUpTo(S, n) ==
    IF n = 0 THEN {<<>>}
    ELSE LET shorter == SeqsUpTo(S, n - 1)
         IN shorter \cup {Append(q, x) : q \in {r \in shorter : Len(r) = n - 1}, x \in S}

\* Python truthiness: of an optional object, and of an optional list
Truthy(o) == o # NoObject
TruthyList(l) == ~l.none /\ l.items # <<>>

(***************************************************************************)
(* The domain model, src/apps/prune_server/models.py                       *)
(***************************************************************************)
\* validate without its first check: a policy with neither passes
PolicyValidateNoMissing(policy) ==
    IF Truthy(policy.timeretention) /\ TruthyList(policy.conditions)
    THEN "ValueError: Only one of timeretention or conditions can be provided"
    ELSE "True"

\* validate without its second check: a policy with both passes
PolicyValidateNoAmbiguous(policy) ==
    IF ~Truthy(policy.timeretention) /\ ~TruthyList(policy.conditions)
    THEN "ValueError: Either timeretention or conditions must be provided"
    ELSE "True"

\* DataRetentionPolicy.validate: True or the ValueError it raises
PolicyValidate(policy) ==
    IF ~Truthy(policy.timeretention) /\ ~TruthyList(policy.conditions)
    THEN "ValueError: Either timeretention or conditions must be provided"
    ELSE IF Truthy(policy.timeretention) /\ TruthyList(policy.conditions)
         THEN "ValueError: Only one of timeretention or conditions can be provided"
         ELSE "True"

\* SELECT EXISTS (... information_schema.tables WHERE table_name, table_schema)
ExistsQuery(d, table_name, schema) ==
    \E r \in d : r.name = table_name /\ r.schema = schema

\* the rows of the server's pg_inherits query: the children of the parent of
\* that name in that schema
SelectPartitions(d, table_name, schema) ==
    {r \in d : r.pname = table_name /\ r.pschema = schema}

\* a DROP that removes nothing
DropTableNoop(d, schema, name) == d

\* DROP TABLE IF EXISTS schema.name: the relation goes, and its partitions with it
DropTable(d, schema, name) ==
    {r \in d : ~(r.schema = schema /\ r.name = name)
               /\ ~(r.pschema = schema /\ r.pname = name)}

\* cutoff_datetime = datetime.now(timezone.utc) - timedelta(seconds=retention_seconds)
CutoffServer(clock, retention_seconds) == MinusSeconds(clock, retention_seconds)

\* partition_datetime < cutoff_datetime
Eligible(partition_datetime, cutoff_datetime) ==
    Before(partition_datetime, cutoff_datetime)

(***************************************************************************)
(* The prune server, src/apps/prune_server/main.py                         *)
(***************************************************************************)
\* ApiDataRetentionPolicy.check_timeretention_or_conditions: the request is
\* rejected when a policy carries neither or both
RootValidatorOk(cfg) ==
    /\ ~(~Truthy(cfg.timeretention) /\ ~TruthyList(cfg.conditions))
    /\ ~(Truthy(cfg.timeretention) /\ TruthyList(cfg.conditions))

\* the domain objects prune_tables builds from one table_config
TableModel(cfg) ==
    [table_name |-> cfg.table_name,
     schema |-> cfg.schema_name,
     retention_policy |->
        Some([timeretention |-> IF Truthy(cfg.timeretention) THEN cfg.timeretention ELSE NoObject,
              conditions |-> IF TruthyList(cfg.conditions) THEN cfg.conditions ELSE NoList])]

\* the table_model of the iteration under way
CurModel == IF prog = "cli" THEN tables[i] ELSE TableModel(tables[i])

Detail(cfg, status, message) ==
    [table_name |-> cfg.table_name, schema_name |-> cfg.schema_name,
     status |-> status, message |-> message]

Stmt(kind, schema, name) == [idx |-> i, kind |-> kind, schema |-> schema, name |-> name]

\* history of a pass: the clock, the failures so far and whether the table
\* existed when it started, the rows the catalog query returned, what was done
\* with each
NoPass == [start |-> Now0, faults0 |-> 0, existed |-> FALSE, listed |-> {}, evals |-> {},
           dropFailed |-> FALSE]

StartPass ==
    [NoPass EXCEPT !.start = now,
                   !.faults0 = faults,
                   !.existed = \E r \in db : r.name = tables[i].table_name
                                             /\ r.schema = (IF prog = "cli" THEN tables[i].schema
                                                            ELSE tables[i].schema_name)]

\* history: the pass of table i ends with this outcome in database d
EndPass(outcome, d) ==
    Append(passes, [idx |-> i, start |-> cur.start, end |-> now,
                    faults0 |-> cur.faults0, existed |-> cur.existed,
                    listed |-> cur.listed, evals |-> cur.evals,
                    dropFailed |-> cur.dropFailed, outcome |-> outcome, db |-> d])

(***************************************************************************)
(* The connection.  psycopg.connect is called without autocommit:        *)
(* the statements of a run share one transaction until commit().  A        *)
(* statement that fails aborts the transaction, and every later statement  *)
(* fails too until the transaction ends; commit() then rolls back and      *)
(* returns.  A lost connection fails every statement and commit().         *)
(***************************************************************************)
\* what cursor.execute can do now: "ok", or raise and leave the transaction so
StmtOutcomes ==
    IF txn = "ok"
    THEN {"ok"} \cup (IF faults < MaxFaults THEN {"aborted", "broken"} ELSE {})
    ELSE {txn}

\* what db_connection.commit() can do now
CommitOutcomes ==
    CASE txn = "ok" -> {"ok"} \cup (IF faults < MaxFaults THEN {"broken"} ELSE {})
      [] txn = "aborted" -> {"rolledback"}
      [] txn = "broken" -> {"broken"}

\* the failures injected once the outcome o is chosen
Faulted(o) == IF txn = "ok" /\ o \in {"aborted", "broken"} THEN faults + 1 ELSE faults

\* what every server and script run starts from, whatever its input
InitCommon ==
    /\ i = 1
    /\ db_conn = "none"
    /\ results = <<>>
    /\ response = None
    /\ table_exists = FALSE
    /\ child_partitions = {}
    /\ durable = db
    /\ txn = "ok"
    /\ now = Now0
    /\ faults = 0
    /\ issued = {}
    /\ passes = <<>>
    /\ cur = NoPass

\* a request arrives at POST /prune
Init ==
    /\ prog = "server"
    /\ pc = "request"
    /\ tables \in SeqsUpTo(ApiTableConfigs, MaxBatch)
    /\ db \in ServerDBs
    /\ tz = 0
    /\ fin = None
    /\ fout = None
    /\ InitCommon

\* pydantic validates the body before the handler runs: 422 on a policy with
\* neither or both of timeretention and conditions
ApiValidate ==
    /\ pc = "request"
    /\ IF \A k \in 1..Len(tables) : RootValidatorOk(tables[k])
       THEN pc' = "connect" /\ response' = response
       ELSE pc' = "done" /\ response' = "422"
    /\ UNCHANGED <<fixed, i, db_conn, results, table_exists, child_partitions,
                   db, durable, txn, now, faults, issued, passes, cur>>

\* db_conn = get_postgres_connection(): a connection, or HTTPException 503, which
\* the handler re-raises; the finally clause finds db_conn None
Connect ==
    /\ pc = "connect"
    /\ \E connected \in BOOLEAN :
         IF connected
         THEN db_conn' = "open" /\ pc' = "loop" /\ response' = response
         ELSE db_conn' = db_conn /\ pc' = "done" /\ response' = "503"
    /\ UNCHANGED <<fixed, i, results, table_exists, child_partitions,
                   db, durable, txn, now, faults, issued, passes, cur>>

\* a finally clause that forgets the connection
CloseLeak(conn) == conn

\* finally: if db_conn: db_conn.close()
Close(conn) == IF conn = "open" THEN "closed" ELSE conn

\* for table_config in prune_request.tables: the next table_model is built, or
\* the loop is over: return PruneResponse(results), then the finally clause
NextTable ==
    /\ pc = "loop"
    /\ IF i <= Len(tables)
       THEN /\ pc' = "validate"
            /\ cur' = StartPass
            /\ UNCHANGED <<response, db_conn>>
       ELSE /\ pc' = "done"
            /\ response' = "200"
            /\ db_conn' = Close(db_conn)
            /\ cur' = cur
    /\ UNCHANGED <<fixed, i, results, table_exists, child_partitions,
                   db, durable, txn, now, faults, issued, passes>>

\* the table's pass ends: its result is appended and the loop goes on
Report(status, message, d) ==
    /\ results' = Append(results, Detail(tables[i], status, message))
    /\ passes' = EndPass(status, d)
    /\ i' = i + 1
    /\ pc' = "loop"

\* an except clause that logs the error and appends nothing
UnexpectedSwallow ==
    /\ results' = results
    /\ passes' = EndPass("error", db)
    /\ i' = i + 1
    /\ pc' = "loop"

\* except Exception as e: results.append(... status="error" ...)
Unexpected == Report("error", "An unexpected error occurred", db)

\* PostgresTableModel.validate, first half: the existence query
ValidateExists ==
    /\ pc = "validate"
    /\ issued' = issued \cup {Stmt("exists", CurModel.schema, CurModel.table_name)}
    /\ \E o \in StmtOutcomes :
         /\ txn' = o
         /\ faults' = Faulted(o)
         /\ IF o # "ok"
            THEN Unexpected /\ table_exists' = table_exists
            ELSE /\ table_exists' = ExistsQuery(db, CurModel.table_name, CurModel.schema)
                 /\ pc' = "validate_policy"
                 /\ UNCHANGED <<results, passes, i>>
    /\ UNCHANGED <<fixed, db_conn, response, child_partitions, db, durable, now, cur>>

\* PostgresTableModel.validate, second half, and what prune_tables does with its
\* result: a ValueError of the policy or a false result is the table's error
ValidatePolicy ==
    /\ pc = "validate_policy"
    /\ LET valid_policy == IF Truthy(CurModel.retention_policy)
                           THEN PolicyValidate(Value(CurModel.retention_policy))
                           ELSE "True"
       IN IF valid_policy # "True"
          THEN Report("error", valid_policy, db)
          ELSE IF ~table_exists
               THEN Report("error", "Validation failed", db)
               ELSE pc' = "prune" /\ UNCHANGED <<results, passes, i>>
    /\ UNCHANGED <<fixed, db_conn, response, table_exists, child_partitions,
                   db, durable, txn, now, faults, issued, cur>>

\* if table_model.retention_policy: table_model.prune(db_conn) ... else "skipped".
\* prune goes to the partitions for a time retention; for conditions it calls
\* _delete_records_by_condition, which prints that it is not implemented and
\* returns, and the table is reported a success
Prune ==
    /\ pc = "prune"
    /\ IF Truthy(CurModel.retention_policy)
       THEN IF Truthy(Value(CurModel.retention_policy).timeretention)
            THEN pc' = "select_partitions" /\ UNCHANGED <<results, passes, i>>
            ELSE Report("success", "Successfully processed", db)
       ELSE Report("skipped", "No retention policy provided", db)
    /\ UNCHANGED <<fixed, db_conn, response, table_exists, child_partitions,
                   db, durable, txn, now, faults, issued, cur>>

\* _drop_table_partitions: the catalog query for the child partitions
ListPartitions ==
    /\ pc = "select_partitions"
    /\ issued' = issued \cup {Stmt("select_partitions", CurModel.schema, CurModel.table_name)}
    /\ \E o \in StmtOutcomes :
         /\ txn' = o
         /\ faults' = Faulted(o)
         /\ IF o # "ok"
            THEN Unexpected /\ child_partitions' = child_partitions
            ELSE /\ child_partitions' = SelectPartitions(db, CurModel.table_name, CurModel.schema)
                 /\ pc' = "partitions"
                 /\ UNCHANGED <<results, passes, i>>
    /\ cur' = [cur EXCEPT !.listed = child_partitions']
    /\ UNCHANGED <<fixed, db_conn, response, table_exists, db, durable, now>>

Eval(r, kind) ==
    [idx |-> i, afterFailure |-> cur.dropFailed, name |-> r.name, schema |-> r.schema,
     at |-> now, kind |-> kind]

Note(r, kind) == [cur EXCEPT !.evals = @ \cup {Eval(r, kind)}]

\* one iteration of "for partition_tuple in child_partitions", in whatever order
\* the query returned the rows: skip, retain, or DROP (a failing DROP is printed)
PartitionStep ==
    /\ pc = "partitions"
    /\ \E r \in child_partitions :
         /\ child_partitions' = child_partitions \ {r}
         /\ IF ~RegexMatch(CurModel.table_name, r.name)
            THEN cur' = Note(r, "nomatch") /\ UNCHANGED <<db, txn, faults, issued>>
            ELSE LET decoded == DecodeServer(r.name)
                 IN IF ~decoded.ok
                    THEN cur' = Note(r, "unparsed") /\ UNCHANGED <<db, txn, faults, issued>>
                    ELSE IF Eligible(Instant(decoded.dt),
                                     CutoffServer(now, Value(Value(CurModel.retention_policy).timeretention).retention_seconds))
                         THEN /\ issued' = issued \cup {Stmt("drop", CurModel.schema, r.name)}
                              /\ \E o \in StmtOutcomes :
                                   /\ txn' = o
                                   /\ faults' = Faulted(o)
                                   /\ IF o # "ok"
                                      THEN /\ db' = db
                                           /\ cur' = [Note(r, "dropfailed") EXCEPT !.dropFailed = TRUE]
                                      ELSE /\ db' = DropTable(db, CurModel.schema, r.name)
                                           /\ cur' = Note(r, "dropped")
                         ELSE cur' = Note(r, "retained") /\ UNCHANGED <<db, txn, faults, issued>>
    /\ UNCHANGED <<fixed, pc, i, db_conn, results, response, table_exists,
                   durable, now, passes>>

\* db_connection.commit() after the loop, then the table's "success".  On an
\* aborted transaction commit() rolls back and returns; when it raises, the
\* connection is lost and what was not committed is gone
Commit ==
    /\ pc = "partitions"
    /\ child_partitions = {}
    /\ issued' = issued \cup {Stmt("commit", CurModel.schema, CurModel.table_name)}
    /\ \E o \in CommitOutcomes :
         /\ faults' = Faulted(o)
         /\ CASE o = "ok" ->
                   /\ db' = db /\ durable' = db /\ txn' = "ok"
                   /\ Report("success", "Successfully processed", db)
              [] o = "rolledback" ->
                   /\ db' = durable /\ durable' = durable /\ txn' = "ok"
                   /\ Report("success", "Successfully processed", durable)
              [] o = "broken" ->
                   /\ db' = durable /\ durable' = durable /\ txn' = "broken"
                   /\ Report("error", "An unexpected error occurred", durable)
    /\ UNCHANGED <<fixed, db_conn, response, table_exists, child_partitions, now, cur>>

\* seconds since the run started
Elapsed == (now.day - Now0.day) * 86400 + (now.sec - Now0.sec)

\* a second passes.  The clock is read when a pass starts and in each iteration
\* over the partitions, so these are the places where a tick can be told.
Tick ==
    /\ pc \in {"loop", "partitions", "cli_loop", "cli_partitions"}
    /\ Elapsed < MaxTicks
    /\ now' = MinusSeconds(now, -1)
    /\ UNCHANGED <<fixed, pc, i, db_conn, results, response, table_exists,
                   child_partitions, db, durable, txn, faults, issued, passes, cur>>

Handler ==
    \/ Connect
    \/ NextTable
    \/ ValidateExists
    \/ ValidatePolicy
    \/ Prune
    \/ ListPartitions
    \/ PartitionStep
    \/ Commit
    \/ Tick

Next == ApiValidate \/ Handler

Spec == Init /\ [][Next]_vars

\* table configurations handed to the domain model directly: every shape of
\* policy on one table name (the table is missing when the database is empty)
CoreTableConfigs == {c \in ApiTableConfigs : c.table_name = TT}

\* the handler and the domain model on every batch of table configurations,
\* without the request schema's check of the policy shape
InitCore ==
    /\ prog = "server"
    /\ pc = "connect"
    /\ tables \in SeqsUpTo(CoreTableConfigs, MaxBatch)
    /\ db \in ServerDBs
    /\ tz = 0
    /\ fin = None
    /\ fout = None
    /\ InitCommon

NextCore == Handler

SpecCore == InitCore /\ [][NextCore]_vars

(***************************************************************************)
(* The script, src/prune_postgres.py, with its domain model src/models.py   *)
(***************************************************************************)
\* tables = [...] of main(): test_table1 in public, 15 seconds by mtime
CliTables ==
    << [table_name |-> TT, schema |-> Public,
        retention_policy |-> Some([timeretention |-> Some(TimeRetention),
                                   conditions |-> NoList])] >>

\* the databases a run of the script may find: the table with any of its
\* partitions, no table at all, and the table in another schema
CliDBs ==
    { {Parent} \cup {Child(n) : n \in S} : S \in SUBSET {PTie, PNew, PArchive, PMonth13} }
      \cup { {}, {Rel(Arch, TT, None, <<>>), Rel(Arch, POld, Arch, TT)} }

\* the offsets from UTC of the hosts explored, in seconds: UTC-5 and UTC
HostOffsets == {0 - 18000, 0}

\* validate() of src/models.py: "if not exists: table_exists = False" and then
\* "table_exists = True", whatever the query returned
TableExistsCli(exists) == TRUE

\* the rows of the script's pg_inherits query: the children of every parent of
\* that name, in whatever schema
SelectPartitionsCli(d, table_name) == {r \in d : r.pname = table_name}

\* retention_date = (datetime.now() - retention_time).replace(tzinfo=UTC-5): the
\* host's local wall clock, read as if it were a clock of UTC-5
CutoffCli(clock, offset, retention_seconds) ==
    MinusSeconds(clock, retention_seconds - offset - 18000)

InitCli ==
    /\ prog = "cli"
    /\ pc = "cli_connect"
    /\ tables = CliTables
    /\ db \in CliDBs
    /\ tz \in HostOffsets
    /\ fin = None
    /\ fout = None
    /\ InitCommon

\* an exception leaves main(): the script ends with a traceback, and what it
\* had not committed is rolled back
Crash ==
    /\ pc' = "done"
    /\ response' = "crashed"
    /\ passes' = EndPass("error", durable)
    /\ db' = durable

\* db_conn = get_postgres_connection()
CliConnect ==
    /\ pc = "cli_connect"
    /\ \E connected \in BOOLEAN :
         IF connected
         THEN db_conn' = "open" /\ pc' = "cli_loop" /\ response' = response
         ELSE db_conn' = db_conn /\ pc' = "done" /\ response' = "crashed"
    /\ UNCHANGED <<fixed, i, results, table_exists, child_partitions,
                   db, durable, txn, now, faults, issued, passes, cur>>

\* for table in tables; after the loop main() returns, db_conn still open
CliNextTable ==
    /\ pc = "cli_loop"
    /\ IF i <= Len(tables)
       THEN pc' = "cli_validate" /\ cur' = StartPass /\ response' = response
       ELSE pc' = "done" /\ response' = "completed" /\ cur' = cur
    /\ UNCHANGED <<fixed, i, db_conn, results, table_exists, child_partitions,
                   db, durable, txn, now, faults, issued, passes>>

\* table_model.validate(db_conn), "raise ValueError(Table ... does not exist)"
\* when it is false, and prune() up to _drop_table
CliValidate ==
    /\ pc = "cli_validate"
    /\ issued' = issued \cup {Stmt("exists", CurModel.schema, CurModel.table_name)}
    /\ \E o \in StmtOutcomes :
         /\ txn' = o
         /\ faults' = Faulted(o)
         /\ IF o # "ok"
            THEN Crash /\ table_exists' = table_exists
            ELSE /\ table_exists' = TableExistsCli(ExistsQuery(db, CurModel.table_name, CurModel.schema))
                 /\ LET valid_table == IF Truthy(CurModel.retention_policy)
                                       THEN PolicyValidate(Value(CurModel.retention_policy))
                                       ELSE "True"
                    IN IF valid_table # "True" \/ ~table_exists'
                       THEN Crash
                       ELSE pc' = "cli_select" /\ UNCHANGED <<response, passes, db>>
    /\ UNCHANGED <<fixed, i, db_conn, results, child_partitions, durable, now, cur>>

\* _drop_table: the catalog query for the child partitions
CliListPartitions ==
    /\ pc = "cli_select"
    /\ issued' = issued \cup {Stmt("select_partitions", CurModel.schema, CurModel.table_name)}
    /\ \E o \in StmtOutcomes :
         /\ txn' = o
         /\ faults' = Faulted(o)
         /\ IF o # "ok"
            THEN Crash /\ child_partitions' = child_partitions
            ELSE /\ child_partitions' = SelectPartitionsCli(db, CurModel.table_name)
                 /\ pc' = "cli_partitions"
                 /\ UNCHANGED <<response, passes, db>>
    /\ cur' = [cur EXCEPT !.listed = child_partitions']
    /\ UNCHANGED <<fixed, i, db_conn, results, table_exists, durable, now>>

\* one iteration of "for partition in child_partitions": skip a name outside
\* the pattern; strptime and the DROP are not guarded, their errors leave main()
CliPartitionStep ==
    /\ pc = "cli_partitions"
    /\ \E r \in child_partitions :
         /\ child_partitions' = child_partitions \ {r}
         /\ IF ~RegexMatch(CurModel.table_name, r.name)
            THEN /\ cur' = Note(r, "nomatch")
                 /\ UNCHANGED <<pc, response, passes, db, txn, faults, issued>>
            ELSE LET decoded == DecodeCli(r.name)
                 IN IF ~decoded.ok
                    THEN /\ cur' = Note(r, "unparsed")
                         /\ Crash
                         /\ UNCHANGED <<txn, faults, issued>>
                    ELSE IF Eligible(Instant(decoded.dt),
                                     CutoffCli(now, tz, Value(Value(CurModel.retention_policy).timeretention).retention_seconds))
                         THEN /\ issued' = issued \cup {Stmt("drop", CurModel.schema, r.name)}
                              /\ \E o \in StmtOutcomes :
                                   /\ txn' = o
                                   /\ faults' = Faulted(o)
                                   /\ IF o # "ok"
                                      THEN /\ cur' = [Note(r, "dropfailed") EXCEPT !.dropFailed = TRUE]
                                           /\ Crash
                                      ELSE /\ db' = DropTable(db, CurModel.schema, r.name)
                                           /\ cur' = Note(r, "dropped")
                                           /\ UNCHANGED <<pc, response, passes>>
                         ELSE /\ cur' = Note(r, "retained")
                              /\ UNCHANGED <<pc, response, passes, db, txn, faults, issued>>
    /\ UNCHANGED <<fixed, i, db_conn, results, table_exists, durable, now>>

\* after the loop: commit, then DROP TABLE IF EXISTS of the table itself, and
\* commit.  failed_at is the one of the three that raises, 0 when none does
CliDropParent ==
    /\ pc = "cli_partitions"
    /\ child_partitions = {}
    /\ \E failed_at \in {f \in 0..3 : f > 0 => faults < MaxFaults} :
         LET commit == Stmt("commit", CurModel.schema, CurModel.table_name)
             drop == Stmt("drop", CurModel.schema, CurModel.table_name)
             dropped == DropTable(db, CurModel.schema, CurModel.table_name)
         IN /\ issued' = issued \cup (IF failed_at = 1 THEN {commit} ELSE {commit, drop})
            /\ durable' = CASE failed_at = 0 -> dropped
                            [] failed_at = 1 -> durable
                            [] failed_at \in {2, 3} -> db
            /\ db' = durable'
            /\ IF failed_at = 0
               THEN /\ passes' = EndPass("success", dropped)
                    /\ i' = i + 1
                    /\ pc' = "cli_loop"
                    /\ UNCHANGED <<response, faults, txn>>
               ELSE /\ passes' = EndPass("error", durable')
                    /\ pc' = "done"
                    /\ response' = "crashed"
                    /\ faults' = faults + 1
                    /\ txn' = "broken"
                    /\ i' = i
    /\ UNCHANGED <<fixed, db_conn, results, table_exists, child_partitions, now, cur>>

NextCli ==
    \/ CliConnect
    \/ CliNextTable
    \/ CliValidate
    \/ CliListPartitions
    \/ CliPartitionStep
    \/ CliDropParent
    \/ Tick

SpecCli == InitCli /\ [][NextCli]_vars

(***************************************************************************)
(* The pure functions on their own                                         *)
(***************************************************************************)
MaxConditions == 2    \* longest list of conditions explored

PolicyConditions ==
    {[column |-> "status", operator |-> "=", value |-> "old"],
     [column |-> "mtime", operator |-> "<", value |-> "2023-01-01"],
     [column |-> "id", operator |-> ">=", value |-> "0"]}

\* every DataRetentionPolicy explored
Policies ==
    [timeretention :
        {NoObject} \cup {Some(t) : t \in [dt_target_column : {"mtime", "ctime"},
                                          retention_seconds : {0 - 1, 0, 15, 86400}]},
     conditions :
        {NoList} \cup {List(q) : q \in SeqsUpTo(PolicyConditions, MaxConditions)}]

InitPure ==
    /\ pc = "call"
    /\ fout = None
    /\ tables = <<>>
    /\ db = {}
    /\ tz = 0
    /\ InitCommon

InitValidate == prog = "validate" /\ fin \in Policies /\ InitPure

\* policy.validate()
ApplyValidate ==
    /\ prog = "validate"
    /\ pc = "call"
    /\ fout' = PolicyValidate(fin)
    /\ pc' = "returned"
    /\ UNCHANGED <<prog, tables, tz, fin, i, db_conn, results, response, table_exists,
                   child_partitions, db, durable, txn, now, faults, issued, passes, cur>>

SpecValidate == InitValidate /\ [][ApplyValidate]_vars

\* parent table names: plain, with an underscore, with "_p" inside, and with
\* "_p" and eight digits inside
CodecTables ==
    {TT, <<"a", "_", "b">>, <<"a", "_", "p", "b">>,
     <<"x", "_", "p", "2", "0", "2", "0", "0", "1", "0", "1">>}

\* the valid dates and times explored
CodecDateTimes ==
    {dt \in [Y : {2020, 2023, 9999}, M : {1, 2, 12}, D : {1, 29, 31},
             h : {0, 23}, m : {0, 59}, s : {0, 59}] : dt.D <= DaysInMonth(dt.Y, dt.M)}

InitCodec ==
    /\ prog = "codec"
    /\ fin \in [table_name : CodecTables, dt : CodecDateTimes]
    /\ InitPure

\* the name of the partition of fin.table_name at fin.dt goes through the
\* pattern and the decoding of _drop_table_partitions
ApplyDecode ==
    /\ prog = "codec"
    /\ pc = "call"
    /\ LET partition_name == Encode(fin.table_name, fin.dt)
       IN fout' = [partition_name |-> partition_name,
                   matched |-> RegexMatch(fin.table_name, partition_name),
                   decoded |-> DecodeServer(partition_name)]
    /\ pc' = "returned"
    /\ UNCHANGED <<prog, tables, tz, fin, i, db_conn, results, response, table_exists,
                   child_partitions, db, durable, txn, now, faults, issued, passes, cur>>

SpecCodec == InitCodec /\ [][ApplyDecode]_vars

(***************************************************************************)
(* Properties                                                              *)
(***************************************************************************)
\* what the claims say of the input, in their own words
HasTime(cfg) == cfg.timeretention # NoObject
HasConditions(cfg) == ~cfg.conditions.none /\ Len(cfg.conditions.items) > 0
Malformed(cfg) == HasTime(cfg) = HasConditions(cfg)

\* C1: once the run has its connection, it returns one result per table of the
\* request, in the order of the request, whatever happened to each table
C1_OneOutcomePerTable ==
    /\ Len(results) <= Len(tables)
    /\ \A k \in 1..Len(results) :
         /\ results[k].table_name = tables[k].table_name
         /\ results[k].schema_name = tables[k].schema_name
         /\ results[k].status \in {"success", "error", "skipped"}
    /\ (pc = "done" /\ db_conn # "none") =>
         (response = "200" /\ Len(results) = Len(tables))

\* a run that ended with a success for its first table and an error for its
\* second, a different table
C1_Witness ==
    /\ pc = "done" /\ response = "200"
    /\ Len(results) = 2
    /\ tables[1].table_name # tables[2].table_name
    /\ results[1].status = "success"
    /\ results[2].status = "error"

\* C2: no run ends with its connection open
C2_ConnectionClosed == pc = "done" => db_conn # "open"

\* a run that ended, its connection closed, after a statement of a table raised
C2_Witness ==
    /\ pc = "done"
    /\ db_conn = "closed"
    /\ \E k \in 1..Len(results) : results[k].message = "An unexpected error occurred"

\* C3: validate succeeds iff exactly one of timeretention and conditions is
\* non-empty, fails with the "missing" error on neither and with the
\* "ambiguous" error on both
C3_ValidateIffExactlyOne ==
    (prog = "validate" /\ pc = "returned") =>
        LET time == fin.timeretention # NoObject
            conds == ~fin.conditions.none /\ Len(fin.conditions.items) > 0
        IN /\ (fout = "True") <=> (time # conds)
           /\ (~time /\ ~conds) =>
                fout = "ValueError: Either timeretention or conditions must be provided"
           /\ (time /\ conds) =>
                fout = "ValueError: Only one of timeretention or conditions can be provided"

\* validate has returned on a policy with an empty list of conditions and no
\* time retention
C3_Witness ==
    /\ prog = "validate" /\ pc = "returned"
    /\ fin.timeretention = NoObject
    /\ fin.conditions = List(<<>>)
    /\ fout # "True"

Nominal(table_name, name) ==
    LET n == Len(table_name)
    IN [Y |-> 100 * Int2(name, n + 3) + Int2(name, n + 5),
        M |-> Int2(name, n + 7), D |-> Int2(name, n + 9),
        h |-> Int2(name, n + 12), m |-> Int2(name, n + 14), s |-> Int2(name, n + 16)]

\* name is {table_name}_pYYYYMMDD_HHMMSS for a date and time of the calendar
Conforms(table_name, name) ==
    LET n == Len(table_name)
    IN /\ Len(name) = n + 17
       /\ SubSeq(name, 1, n + 2) = table_name \o <<"_", "p">>
       /\ name[n + 11] = "_"
       /\ \A k \in ((n + 3)..(n + 10)) \cup ((n + 12)..(n + 17)) : IsDigit(name[k])
       /\ LET dt == Nominal(table_name, name)
          IN /\ dt.Y >= 1 /\ dt.M \in 1..12 /\ dt.D >= 1
             /\ dt.D <= DaysInMonth(dt.Y, dt.M)
             /\ dt.h <= 23 /\ dt.m <= 59 /\ dt.s <= 59

TableName(k) == tables[k].table_name
SchemaName(k) == IF prog = "cli" THEN tables[k].schema ELSE tables[k].schema_name
RetentionOf(k) ==
    IF prog = "cli"
    THEN Value(Value(tables[k].retention_policy).timeretention).retention_seconds
    ELSE Value(tables[k].timeretention).retention_seconds

\* every partition evaluated so far in the run
AllEvals == cur.evals \cup UNION {passes[k].evals : k \in 1..Len(passes)}

DropIssued(e) == e.kind \in {"dropped", "dropfailed"}

\* the partition of e is older than now_utc - retention_seconds, now_utc being
\* the clock when it was evaluated
Expired(e) ==
    Before(Instant(Nominal(TableName(e.idx), e.name)),
           MinusSeconds(e.at, RetentionOf(e.idx)))

\* C5: a partition whose name encodes the timestamp t is issued a DROP iff
\* t < now_utc - retention_seconds
C5_DropIffBeforeCutoff ==
    \A e \in AllEvals :
        Conforms(TableName(e.idx), e.name) => (DropIssued(e) <=> Expired(e))

\* whether the table of pass k was in its schema when the pass started
ExistedAt(k) == IF k <= Len(passes) THEN passes[k].existed ELSE cur.existed

\* C6: a table that does not exist ends in an error, and neither the catalog
\* query for its partitions nor a DROP or DELETE is issued for it
C6_MissingTableFailsUntouched ==
    /\ \A k \in 1..Len(passes) : ~passes[k].existed => passes[k].outcome = "error"
    /\ \A q \in issued :
         q.kind \in {"select_partitions", "drop", "delete"} => ExistedAt(q.idx)

\* C7: a child whose name is outside the convention, or is no calendar date
\* and time, gets no DROP; the other children are still evaluated and, when no
\* statement fails, the pass ends a success
C7_NonConformingSkipped ==
    \A k \in 1..Len(passes) :
        \A r \in passes[k].listed :
            ~Conforms(TableName(k), r.name) =>
                /\ \A q \in issued :
                     ~(q.idx = k /\ q.kind = "drop" /\ q.name = r.name)
                /\ faults = 0 =>
                     /\ passes[k].outcome = "success"
                     /\ \A q \in passes[k].listed :
                          \E e \in passes[k].evals : e.name = q.name

\* C8: the name the convention gives any table at a valid date and time
\* matches the pattern and decodes to that date and time, which encodes back
\* to the name
C8_DecodeRoundTrip ==
    (prog = "codec" /\ pc = "returned") =>
        /\ fout.matched
        /\ fout.decoded.ok
        /\ fout.decoded.dt = fin.dt
        /\ Encode(fin.table_name, fout.decoded.dt) = fout.partition_name

\* C9: while the connection lives, an expired partition evaluated after a DROP
\* that failed is dropped, and the pass ends a success with it gone
C9_RemainingDroppedAfterFailure ==
    txn # "broken" =>
        \A k \in 1..Len(passes) :
            \A b \in passes[k].evals :
                ( /\ b.afterFailure
                  /\ Conforms(TableName(k), b.name)
                  /\ Expired(b) )
                => /\ b.kind = "dropped"
                   /\ passes[k].outcome = "success"
                   /\ \A r \in passes[k].db :
                        ~(r.schema = SchemaName(k) /\ r.name = b.name)

\* two passes in a row are the same time-based pass with no time elapsed and no
\* failure
SamePassTwice(k) ==
    /\ k + 1 <= Len(passes)
    /\ tables[k] = tables[k + 1]
    /\ HasTime(tables[k]) /\ ~HasConditions(tables[k])
    /\ passes[k].outcome = "success" /\ passes[k + 1].outcome = "success"
    /\ ~passes[k].dropFailed /\ ~passes[k + 1].dropFailed
    /\ passes[k].start = passes[k + 1].end

\* C10: the second of two such passes drops nothing: the database after it is
\* the database after the first
C10_SecondPassDropsNothing ==
    \A k \in 1..Len(passes) :
        SamePassTwice(k) =>
            /\ passes[k + 1].db = passes[k].db
            /\ \A e \in passes[k + 1].evals : e.kind # "dropped"

\* two such passes, the first of which dropped a partition and kept another
C10_Witness ==
    \E k \in 1..Len(passes) :
        /\ SamePassTwice(k)
        /\ \E e \in passes[k].evals : e.kind = "dropped"
        /\ \E e \in passes[k + 1].evals : e.kind = "retained"

\* the failures so far when pass k ended
FaultsAfter(k) ==
    IF k < Len(passes) THEN passes[k + 1].faults0
    ELSE IF pc \in {"loop", "done"} THEN faults ELSE cur.faults0

\* no statement of pass k failed of itself
OwnClean(k) == FaultsAfter(k) = passes[k].faults0

\* the outcome of the table of pass k when nothing fails: an error for a table
\* that is missing or whose policy is malformed, a success otherwise
Alone(k) ==
    IF ~passes[k].existed \/ Malformed(tables[k]) THEN "error" ELSE "success"

\* C11: when the pass of one table has failed, every other table of the batch,
\* before or after it, has the outcome it has on its own, and its expired
\* partitions are dropped
C11_BatchIsolation ==
    \A k, j \in 1..Len(passes) :
        (k # j /\ passes[k].outcome = "error" /\ OwnClean(j) /\ txn # "broken") =>
            /\ passes[j].outcome = Alone(j)
            /\ \A e \in passes[j].evals :
                 (Conforms(TableName(j), e.name) /\ Expired(e)) => e.kind = "dropped"

\* C12: a table configured with neither variant of a policy is valid input:
\* the request is accepted, and when the table exists its result is "skipped",
\* with no DROP or DELETE issued for it
C12_NoPolicySkipped ==
    \A k \in 1..Len(tables) :
        (~HasTime(tables[k]) /\ ~HasConditions(tables[k])) =>
            /\ response # "422"
            /\ (k <= Len(passes) /\ passes[k].existed /\ OwnClean(k)) =>
                 /\ passes[k].outcome = "skipped"
                 /\ results[k].status = "skipped"
            /\ \A q \in issued : q.idx = k => q.kind \notin {"drop", "delete"}

\* C13: a table whose policy is a set of conditions is reported a success only
\* when one DELETE has been executed against it
C13_SuccessOnlyAfterDelete ==
    \A k \in 1..Len(passes) :
        (HasConditions(tables[k]) /\ ~HasTime(tables[k]) /\ passes[k].outcome = "success") =>
            \E q \in issued :
                /\ q.idx = k /\ q.kind = "delete"
                /\ q.schema = SchemaName(k) /\ q.name = TableName(k)

\* r is a child of table i in its schema, named by the convention for a time
\* before now_utc - retention_seconds
EligibleChild(r) ==
    /\ r.pname = TableName(i) /\ r.pschema = SchemaName(i)
    /\ r.schema = SchemaName(i)
    /\ Conforms(TableName(i), r.name)
    /\ Before(Instant(Nominal(TableName(i), r.name)), MinusSeconds(now, RetentionOf(i)))

\* C14: the pass of a table removes nothing but eligible children of that
\* table: the parent, the children outside the convention, the partitions at
\* or after the cutoff and every other relation are still there after each step
C14_OnlyEligibleRemoved == [][\A r \in db \ db' : EligibleChild(r)]_vars

====
